---- MODULE Spec2Model ----
(***************************************************************************)
(* The scrape engine of sql_exporter: exporter.Gather (exporter.go) fans   *)
(* out over the targets, target.Collect / target.ping (target.go) probe    *)
(* the connection, emit `up`, run the collectors and emit                  *)
(* `scrape_duration_seconds`; samples travel over one bounded channel per  *)
(* Gather call and are collated into metric families.                      *)
(***************************************************************************)
EXTENDS Integers, Sequences, FiniteSets, Bags, TLC

\* ---- bounds -------------------------------------------------------------
MaxCollectors == 2   \* len(t.collectors) at most
MaxSamples == 1      \* samples one collector invocation sends at most
capMetricChan == 2   \* channel capacity (1000 in the source, scaled down)

Calls == {1, 2}
Targets == {1, 2}
Collectors == 1..MaxCollectors

\* The runs explored: two Gather calls (one after the other or concurrent) on one
\* target, one call on two targets, one call on one target with several
\* collectors.
Shapes ==
    { [calls |-> 2, targets |-> 1, collectors |-> 1],
      [calls |-> 1, targets |-> 2, collectors |-> 1] }
    \cup { [calls |-> 1, targets |-> 1, collectors |-> k] : k \in Collectors }

\* ---- program constants --------------------------------------------------
upMetricName == "up"
upMetricHelp == "1 if the target is reachable, or 0 if the scrape failed"
scrapeDurationName == "scrape_duration_seconds"
scrapeDurationHelp == "How long it took to scrape the target in seconds"

\* the nil *sql.DB
NilConn == 0

VARIABLES
    envConfigFile, \* environment: os.Getenv("CONFIG"), "" when unset
    args,       \* environment: the command line
    showVersion, \* main's *showVersion
    configFile, \* main's *configFile
    mpc,        \* position of main
    calls,      \* environment: how many times Gather is invoked
    targets,    \* configuration: e.targets
    collectors, \* configuration: t.collectors, the collector list of the job
    descs,      \* configuration: the metric descriptor of each collector
    conn,       \* target.conn, shared by all scrapes of a target
    nOpen,      \* history: successful OpenConnection results stored in target.conn
    last_run_at, \* per collector of a target: whether its query has been run (0 is never)
    gpc,        \* position of each Gather call
    ctx,        \* the context of each Gather call
    metricChan, \* the buffered channel of each Gather call
    closed,     \* number of close(metricChan) executed
    wg,         \* Gather's sync.WaitGroup counter
    coord,      \* position of the closing goroutine (exporter.go:76)
    families,   \* dtoMetricFamilies of each Gather call; a family's samples as a bag
    errs,       \* errs of each Gather call, as a bag
    tpc,        \* position of each target.Collect task
    ores,       \* history: what OpenConnection returned to the task ("" is not called)
    perr,       \* the error ping returned ("" is nil)
    twg,        \* target.Collect's sync.WaitGroup counter
    kpc,        \* position of each collector task
    kconn,      \* the t.conn value a collector task was invoked with
    ksent,      \* number of samples a collector task has sent
    sent,       \* history: the bag of items sent, per channel they were sent on
    panicked    \* a send on a closed channel or a second close happened

vars == <<envConfigFile, args, showVersion, configFile, mpc,
          calls, targets, collectors, descs, conn, nOpen, last_run_at, gpc, ctx, metricChan,
          closed, wg, coord, families, errs, tpc, ores, perr, twg, kpc, kconn,
          ksent, sent, panicked>>

mainvars == <<envConfigFile, args, showVersion, configFile, mpc>>
cfgvars == <<mainvars, calls, targets, collectors, descs>>
gvars == <<gpc, metricChan, closed, wg, coord, families, errs>>
kvars == <<kpc, kconn, ksent>>

\* ---- metrics ------------------------------------------------------------
\* The descriptors a collector's metric can be configured with: the metric name
\* is unique within a collector only, so two collectors may use one name with
\* different types and help texts.
MetricDescs ==
    { [name |-> "m", help |-> "h1", type |-> "counter"],
      [name |-> "m", help |-> "h2", type |-> "gauge"] }

upDesc == [name |-> upMetricName, help |-> upMetricHelp, type |-> "gauge"]
scrapeDurationDesc ==
    [name |-> scrapeDurationName, help |-> scrapeDurationHelp, type |-> "gauge"]

\* A sample of descriptor d sent by task (g, t, c) as its n-th item; c = 0 is
\* the target task itself.
NewMetric(g, t, c, n, d, v) ==
    [call |-> g, target |-> t, coll |-> c, seq |-> n, err |-> "",
     name |-> d.name, help |-> d.help, type |-> d.type, val |-> v]

\* The in-band carrier of error e.
NewInvalidMetric(g, t, c, n, e) ==
    [call |-> g, target |-> t, coll |-> c, seq |-> n, err |-> e,
     name |-> "", help |-> "", type |-> "", val |-> 0]

boolToFloat64(value) == IF value THEN 1 ELSE 0

\* metric.Write: the error of an invalid metric, nil ("") otherwise.
Write(metric) == metric.err

\* ---- the channel --------------------------------------------------------
\* Mutant: the channel is a field of the exporter, shared by all Gather calls.
ChanOf_Shared(g) == 1

\* Mutant: the channel is a field of the exporter that every Gather call
\* overwrites, so the tasks send on the channel of the call that started last.
ChanOf_Latest(g) ==
    CHOOSE h \in Calls : gpc[h] # "idle" /\ \A k \in Calls : gpc[k] # "idle" => k <= h

\* The channel a task of Gather call g sends on: the ch it was handed.
ChanOf(g) == g

CanSend(g) == Len(metricChan[ChanOf(g)]) < capMetricChan \/ closed[ChanOf(g)] > 0

\* ch <- m by a task of call g: appends, and panics on a closed channel.
Send(g, m) ==
    /\ CanSend(g)
    /\ metricChan' = [metricChan EXCEPT ![ChanOf(g)] = Append(@, m)]
    /\ sent' = [sent EXCEPT ![ChanOf(g)] = @ (+) SetToBag({m})]
    /\ panicked' = (panicked \/ closed[ChanOf(g)] > 0)

\* ---- main ---------------------------------------------------------------
\* The default of the config.file flag (line 32).
DefaultConfigFile == "sql_exporter.yml"

\* The flag is not on the command line.
NotGiven == "(not given)"

\* The paths the environment and the command line may name; the empty one too.
Paths == {"", DefaultConfigFile, "env.yml", "flag.yml"}

\* The command lines: -config.file with a path or not given, -version or not.
CommandLines == [config : Paths \cup {NotGiven}, version : BOOLEAN]

\* Lines 28-33: the flags are defined, each variable holding its default.
MainFlags ==
    /\ mpc = "start"
    /\ configFile' = DefaultConfigFile
    /\ showVersion' = FALSE
    /\ mpc' = "env"
    /\ UNCHANGED <<envConfigFile, args>>

\* Mutant: the value of CONFIG replaces the default also when it is empty.
EnvOverride_AlsoEmpty(file, env) == env

\* Lines 42-44: a non-empty CONFIG replaces the value of *configFile.
EnvOverride(file, env) == IF env # "" THEN env ELSE file

MainEnv ==
    /\ mpc = "env"
    /\ configFile' = EnvOverride(configFile, envConfigFile)
    /\ mpc' = "parse"
    /\ UNCHANGED <<envConfigFile, args, showVersion>>

\* flag.Parse on one flag: a flag on the command line sets its variable, one
\* that is not leaves the variable as it is.
FlagSet(current, given) == IF given # NotGiven THEN given ELSE current

\* Line 45: flag.Parse().
MainParse ==
    /\ mpc = "parse"
    /\ configFile' = FlagSet(configFile, args.config)
    /\ showVersion' = args.version
    /\ mpc' = "parsed"
    /\ UNCHANGED <<envConfigFile, args>>

\* Lines 47-54: with -version main prints and exits; else NewExporter is called
\* with *configFile.
MainStart ==
    /\ mpc = "parsed"
    /\ mpc' = IF showVersion THEN "exit" ELSE "serving"
    /\ UNCHANGED <<envConfigFile, args, showVersion, configFile>>

\* The state of main once it has started the exporter from the default
\* configuration file, no flag and no CONFIG given.
MainServing ==
    /\ envConfigFile = ""
    /\ args = [config |-> NotGiven, version |-> FALSE]
    /\ showVersion = FALSE
    /\ configFile = DefaultConfigFile
    /\ mpc = "serving"

\* ---- initial state ------------------------------------------------------
\* The exporter as NewExporter returns it.
ExporterInit ==
    /\ \E shape \in Shapes :
         /\ calls = shape.calls
         /\ targets = 1..shape.targets
         /\ collectors = 1..shape.collectors
    /\ descs \in [collectors -> MetricDescs]
    \* collectors and descriptors are interchangeable: one of each kind of
    \* assignment is enough
    /\ descs[1].type = "counter"
    /\ \A c1, c2 \in collectors :
         c1 < c2 /\ descs[c1].type = "gauge" => descs[c2].type = "gauge"
    /\ conn = [t \in Targets |-> NilConn]
    /\ nOpen = [t \in Targets |-> 0]
    /\ last_run_at = [t \in Targets |-> [c \in Collectors |-> 0]]
    /\ gpc = [g \in Calls |-> "idle"]
    /\ ctx = [g \in Calls |-> "none"]
    /\ metricChan = [g \in Calls |-> <<>>]
    /\ closed = [g \in Calls |-> 0]
    /\ wg = [g \in Calls |-> 0]
    /\ coord = [g \in Calls |-> "idle"]
    /\ families = [g \in Calls |-> <<>>]
    /\ errs = [g \in Calls |-> EmptyBag]
    /\ tpc = [g \in Calls |-> [t \in Targets |-> "idle"]]
    /\ ores = [g \in Calls |-> [t \in Targets |-> ""]]
    /\ perr = [g \in Calls |-> [t \in Targets |-> ""]]
    /\ twg = [g \in Calls |-> [t \in Targets |-> 0]]
    /\ kpc = [g \in Calls |-> [t \in Targets |-> [c \in Collectors |-> "idle"]]]
    /\ kconn = [g \in Calls |-> [t \in Targets |-> [c \in Collectors |-> NilConn]]]
    /\ ksent = [g \in Calls |-> [t \in Targets |-> [c \in Collectors |-> 0]]]
    /\ sent = [g \in Calls |-> EmptyBag]
    /\ panicked = FALSE

Init == MainServing /\ ExporterInit

\* ---- exporter.Gather ----------------------------------------------------
\* Lines 57-85: the context, the channel, one goroutine per target, the closing
\* goroutine. Call g + 1 starts only after call g has (calls are interchangeable).
GatherStart(g) ==
    /\ gpc[g] = "idle"
    /\ g <= calls
    /\ g > 1 => gpc[g - 1] # "idle"
    /\ gpc' = [gpc EXCEPT ![g] = "range"]
    /\ ctx' = [ctx EXCEPT ![g] = "live"]
    /\ wg' = [wg EXCEPT ![g] = Cardinality(targets)]
    /\ tpc' = [tpc EXCEPT ![g] =
                 [t \in Targets |-> IF t \in targets THEN "ping" ELSE "idle"]]
    /\ coord' = [coord EXCEPT ![g] = "wait"]
    /\ UNCHANGED <<cfgvars, conn, nOpen, last_run_at, metricChan, closed, families, errs, ores,
                   perr, twg, kvars, sent, panicked>>

\* The deadline of context.WithTimeout passes.
Timeout(g) ==
    /\ ctx[g] = "live"
    /\ ctx' = [ctx EXCEPT ![g] = "deadline"]
    /\ UNCHANGED <<cfgvars, conn, nOpen, last_run_at, gvars, tpc, ores, perr, twg, kvars, sent,
                   panicked>>

\* ctx.Err() != nil
Expired(g) == ctx[g] # "live"

\* Mutant: the closing goroutine does not wait for the target tasks.
CanClose_NoWait(g) == TRUE

\* Lines 76-79: wg.Wait(), then close(metricChan).
CanClose(g) == wg[g] = 0

CoordClose(g) ==
    /\ coord[g] = "wait"
    /\ CanClose(g)
    /\ coord' = [coord EXCEPT ![g] = "done"]
    /\ closed' = [closed EXCEPT ![g] = @ + 1]
    /\ panicked' = (panicked \/ closed[g] > 0)
    /\ UNCHANGED <<cfgvars, conn, nOpen, last_run_at, gpc, ctx, metricChan, wg, families, errs,
                   tpc, ores, perr, twg, kvars, sent>>

\* Lines 90-112: what one iteration of the range loop does with metric.
NewFamily(metric) ==
    [name |-> metric.name, help |-> metric.help, type |-> metric.type,
     metric |-> SetToBag({metric})]

\* Mutant: a sample of an existing family replaces the family's samples.
Collate_Overwrite(fams, metric) ==
    [n \in DOMAIN fams \cup {metric.name} |->
        IF n = metric.name THEN NewFamily(metric) ELSE fams[n]]

Collate(fams, metric) ==
    IF metric.name \in DOMAIN fams
    THEN [fams EXCEPT ![metric.name].metric = @ (+) SetToBag({metric})]
    ELSE fams @@ (metric.name :> NewFamily(metric))

Handled(fams, metric) ==
    metric.name \in DOMAIN fams \/ metric.type \in {"gauge", "counter"}

\* Lines 90-112: the body of the range loop, on the families and errors
\* gathered so far.
RangeBody(fams, es, metric) ==
    IF Write(metric) # ""
    THEN [families |-> fams, errs |-> es (+) SetToBag({metric})]
    ELSE IF Handled(fams, metric)
    THEN [families |-> Collate(fams, metric), errs |-> es]
    ELSE [families |-> fams,
          errs |-> es (+) SetToBag({[metric EXCEPT !.err = "unhandled"]})]

GatherReceive(g) ==
    /\ gpc[g] = "range"
    /\ Len(metricChan[g]) > 0
    /\ LET metric == Head(metricChan[g])
           after == RangeBody(families[g], errs[g], metric)
       IN  /\ metricChan' = [metricChan EXCEPT ![g] = Tail(@)]
           /\ families' = [families EXCEPT ![g] = after.families]
           /\ errs' = [errs EXCEPT ![g] = after.errs]
    /\ UNCHANGED <<cfgvars, conn, nOpen, last_run_at, gpc, ctx, closed, wg, coord, tpc, ores, perr,
                   twg, kvars, sent, panicked>>

\* Mutant: the loop ends as soon as it finds the channel empty.
RangeEnds_OnEmpty(g) == Len(metricChan[g]) = 0

\* Line 89: `for metric := range metricChan` ends when the channel is closed
\* and has been emptied.
RangeEnds(g) == Len(metricChan[g]) = 0 /\ closed[g] > 0

\* Lines 113-120 and the deferred calls: the range loop ends on the closed, empty
\* channel, the result is built, the deferred drain finds the channel closed and
\* empty, and cancel() runs.
GatherReturn(g) ==
    /\ gpc[g] = "range"
    /\ RangeEnds(g)
    /\ gpc' = [gpc EXCEPT ![g] = "done"]
    /\ ctx' = [ctx EXCEPT ![g] = IF @ = "live" THEN "canceled" ELSE @]
    /\ UNCHANGED <<cfgvars, conn, nOpen, last_run_at, metricChan, closed, wg, coord, families,
                   errs, tpc, ores, perr, twg, kvars, sent, panicked>>

\* ---- target.ping --------------------------------------------------------
\* Mutant: on the context's error Collect sends neither the invalid metric nor
\* the `up` sample.
AfterPing_QuietOnDeadline(e) ==
    IF e = "ctx" THEN "spawn" ELSE IF e # "" THEN "senderr" ELSE "up"

\* Mutant: Collect probes again for as long as ping returns the context's error.
AfterPing_ProbeAgain(e) ==
    IF e = "ctx" THEN "ping" ELSE IF e # "" THEN "senderr" ELSE "up"

\* What ping's caller does next with the error ping returned (Collect, line 92).
AfterPing(e) == IF e # "" THEN "senderr" ELSE "up"

\* Line 135, with handle h in t.conn: PingDB is called, or skipped.
PingNext(g, h) == IF h # NilConn /\ ~Expired(g) THEN "pingdb" ELSE "final"

\* Mutant: ping returns nil at its end without looking at the context.
FinalErr_Unchecked(g) == ""

\* Lines 144-147: the context's error, if any, is what ping returns at its end.
FinalErr(g) == IF Expired(g) THEN "ctx" ELSE ""

\* ping goes on from line 135 with handle h in t.conn.
PingGoesOn(g, t, h) ==
    IF PingNext(g, h) = "pingdb"
    THEN /\ tpc' = [tpc EXCEPT ![g][t] = "pingdb"]
         /\ UNCHANGED perr
    ELSE /\ perr' = [perr EXCEPT ![g][t] = FinalErr(g)]
         /\ tpc' = [tpc EXCEPT ![g][t] = AfterPing(FinalErr(g))]

\* ping returns error e early (lines 126 and 138).
PingReturns(g, t, e) ==
    /\ perr' = [perr EXCEPT ![g][t] = e]
    /\ tpc' = [tpc EXCEPT ![g][t] = AfterPing(e)]

\* Line 122: t.conn == nil; with a handle, ping goes on at line 135.
PingRead(g, t) ==
    /\ tpc[g][t] = "ping"
    /\ IF conn[t] = NilConn
       THEN /\ tpc' = [tpc EXCEPT ![g][t] = "open"]
            /\ UNCHANGED perr
       ELSE PingGoesOn(g, t, conn[t])
    /\ UNCHANGED <<cfgvars, conn, nOpen, last_run_at, gvars, ctx, ores, twg, kvars, sent,
                   panicked>>

\* What OpenConnection and PingDB can return: success, a driver error, or the
\* context's error once the context is expired.
DriverResults(g) == {"ok", "driver"} \cup (IF Expired(g) THEN {"ctx"} ELSE {})

\* Mutant: the handle OpenConnection returned is never stored in t.conn.
StoresHandle_Never(r) == FALSE

\* Mutant: the handle is stored whatever OpenConnection returned, so a failed
\* open leaves a handle behind and no later scrape opens again.
StoresHandle_Whatever(r) == TRUE

\* Mutant: the handle is stored unless OpenConnection returned a driver error,
\* so also on the fall-through for the context's error.
StoresHandle_OnFallThrough(r) == r # "driver"

\* Lines 124-131: the handle is stored only when OpenConnection returned no error.
StoresHandle(r) == r = "ok"

\* Lines 123-135: OpenConnection and what ping does with its result.
PingOpen(g, t) ==
    /\ tpc[g][t] = "open"
    /\ \E r \in DriverResults(g) :
         /\ IF StoresHandle(r)
            THEN /\ conn' = [conn EXCEPT ![t] = g]
                 /\ nOpen' = [nOpen EXCEPT ![t] = @ + 1]
            ELSE UNCHANGED <<conn, nOpen>>
         /\ ores' = [ores EXCEPT ![g][t] = r]
         /\ IF r = "driver"
            THEN PingReturns(g, t, "driver")
            ELSE PingGoesOn(g, t, conn'[t])
    /\ UNCHANGED <<cfgvars, last_run_at, gvars, ctx, twg, kvars, sent, panicked>>

\* Lines 136-147: PingDB; an error other than the context's is returned at once.
PingDB(g, t) ==
    /\ tpc[g][t] = "pingdb"
    /\ \E r \in DriverResults(g) :
         IF r = "driver"
         THEN PingReturns(g, t, "driver")
         ELSE PingReturns(g, t, FinalErr(g))
    /\ UNCHANGED <<cfgvars, conn, nOpen, last_run_at, gvars, ctx, ores, twg, kvars, sent, panicked>>

\* ---- target.Collect -----------------------------------------------------
\* Mutant: Collect treats the failed ping as the end of the probe and goes
\* straight to the collectors' part, without the `up` sample.
AfterInvalid_SkipUp == "spawn"

\* Lines 95-97: after the invalid metric, Collect goes on to the `up` sample.
AfterInvalid == "up"

\* Lines 92-95: the error of ping goes out as an invalid metric.
SendInvalid(g, t) ==
    /\ tpc[g][t] = "senderr"
    /\ Send(g, NewInvalidMetric(g, t, 0, 0, perr[g][t]))
    /\ tpc' = [tpc EXCEPT ![g][t] = AfterInvalid]
    /\ UNCHANGED <<cfgvars, conn, nOpen, last_run_at, gpc, ctx, closed, wg, coord, families, errs,
                   ores, perr, twg, kvars>>

\* targetUp, line 88 and line 94.
targetUp(g, t) == perr[g][t] = ""

\* Line 97: the `up` sample.
SendUp(g, t) ==
    /\ tpc[g][t] = "up"
    /\ Send(g, NewMetric(g, t, 0, 1, upDesc, boolToFloat64(targetUp(g, t))))
    /\ tpc' = [tpc EXCEPT ![g][t] = "spawn"]
    /\ UNCHANGED <<cfgvars, conn, nOpen, last_run_at, gpc, ctx, closed, wg, coord, families, errs,
                   ores, perr, twg, kvars>>

\* Mutant: the collectors are never started.
RunsCollectors_Never(g, t) == FALSE

\* Mutant: the collectors are started whether or not the target is up.
RunsCollectors_Always(g, t) == TRUE

\* Line 101: the collectors run only when the target is up.
RunsCollectors(g, t) == targetUp(g, t)

\* Lines 99-110: one goroutine per collector.
Spawn(g, t) ==
    /\ tpc[g][t] = "spawn"
    /\ IF RunsCollectors(g, t)
       THEN /\ twg' = [twg EXCEPT ![g][t] = Cardinality(collectors)]
            /\ kpc' = [kpc EXCEPT ![g][t] =
                         [c \in Collectors |-> IF c \in collectors THEN "spawned" ELSE "idle"]]
       ELSE UNCHANGED <<twg, kpc>>
    /\ tpc' = [tpc EXCEPT ![g][t] = "wait"]
    /\ UNCHANGED <<cfgvars, conn, nOpen, last_run_at, gvars, ctx, ores, perr, kconn, ksent, sent,
                   panicked>>

\* Mutant: Collect does not wait for its collectors.
WaitDone_NoWait(g, t) == TRUE

\* Line 112: wg.Wait() returns.
WaitDone(g, t) == twg[g][t] = 0

\* Lines 112-115: after the collectors, the `scrape_duration_seconds` sample;
\* Collect returns and the deferred wg.Done() of exporter.go line 70 runs.
SendDuration(g, t) ==
    /\ tpc[g][t] = "wait"
    /\ WaitDone(g, t)
    /\ Send(g, NewMetric(g, t, 0, 2, scrapeDurationDesc, 0))
    /\ tpc' = [tpc EXCEPT ![g][t] = "done"]
    /\ wg' = [wg EXCEPT ![g] = @ - 1]
    /\ UNCHANGED <<cfgvars, conn, nOpen, last_run_at, gpc, ctx, closed, coord, families, errs,
                   ores, perr, twg, kvars>>

\* ---- collector.Collect --------------------------------------------------
\* The collector of target t runs its query and records when, for the
\* min_interval guard of its later invocations.
RecordRun(t, c) == [last_run_at EXCEPT ![t][c] = 1]

\* Line 107: the goroutine evaluates t.conn and enters collector.Collect.
CollectorInvoke(g, t, c) ==
    /\ kpc[g][t][c] = "spawned"
    /\ kpc' = [kpc EXCEPT ![g][t][c] = "run"]
    /\ kconn' = [kconn EXCEPT ![g][t][c] = conn[t]]
    /\ last_run_at' = RecordRun(t, c)
    /\ UNCHANGED <<cfgvars, conn, nOpen, gvars, ctx, tpc, ores, perr, twg, ksent, sent,
                   panicked>>

\* The collector sends a sample of its metric, or an invalid metric for a query
\* or value error.
CollectorSend(g, t, c) ==
    /\ kpc[g][t][c] = "run"
    /\ ksent[g][t][c] < MaxSamples
    /\ \E ok \in BOOLEAN :
         Send(g, IF ok
                 THEN NewMetric(g, t, c, ksent[g][t][c] + 1, descs[c], 0)
                 ELSE NewInvalidMetric(g, t, c, ksent[g][t][c] + 1, "query"))
    /\ ksent' = [ksent EXCEPT ![g][t][c] = @ + 1]
    /\ UNCHANGED <<cfgvars, conn, nOpen, last_run_at, gpc, ctx, closed, wg, coord, families, errs,
                   tpc, ores, perr, twg, kpc, kconn>>

\* Mutant: the collector's goroutine never calls wg.Done().
CollectorDone_Forgotten(n) == n

\* Line 106: the deferred wg.Done() on a wait group counter n.
CollectorDone(n) == n - 1

\* collector.Collect returns and the deferred wg.Done() runs.
CollectorReturn(g, t, c) ==
    /\ kpc[g][t][c] = "run"
    /\ kpc' = [kpc EXCEPT ![g][t][c] = "done"]
    /\ twg' = [twg EXCEPT ![g][t] = CollectorDone(@)]
    /\ UNCHANGED <<cfgvars, conn, nOpen, last_run_at, gvars, ctx, tpc, ores, perr, kconn, ksent, sent,
                   panicked>>

\* ---- specification ------------------------------------------------------
Next ==
    \/ \E g \in Calls : GatherStart(g)
    \/ \E g \in Calls : Timeout(g)
    \/ \E g \in Calls : CoordClose(g)
    \/ \E g \in Calls : GatherReceive(g)
    \/ \E g \in Calls : GatherReturn(g)
    \/ \E g \in Calls, t \in Targets : PingRead(g, t)
    \/ \E g \in Calls, t \in Targets : PingOpen(g, t)
    \/ \E g \in Calls, t \in Targets : PingDB(g, t)
    \/ \E g \in Calls, t \in Targets : SendInvalid(g, t)
    \/ \E g \in Calls, t \in Targets : SendUp(g, t)
    \/ \E g \in Calls, t \in Targets : Spawn(g, t)
    \/ \E g \in Calls, t \in Targets : SendDuration(g, t)
    \/ \E g \in Calls, t \in Targets, c \in Collectors : CollectorInvoke(g, t, c)
    \/ \E g \in Calls, t \in Targets, c \in Collectors : CollectorSend(g, t, c)
    \/ \E g \in Calls, t \in Targets, c \in Collectors : CollectorReturn(g, t, c)

Spec == Init /\ [][Next]_vars

\* The steps of one goroutine running target.Collect, and of one running a
\* collector.
TargetStep(g, t) ==
    \/ PingRead(g, t) \/ PingOpen(g, t) \/ PingDB(g, t)
    \/ SendInvalid(g, t) \/ SendUp(g, t) \/ Spawn(g, t) \/ SendDuration(g, t)

CollectorStep(g, t, c) ==
    CollectorInvoke(g, t, c) \/ CollectorSend(g, t, c) \/ CollectorReturn(g, t, c)

\* A step of the program, as opposed to one of its environment (a call of
\* Gather, the passing of the deadline).
ProgramStep ==
    \E g \in Calls :
        \/ GatherReceive(g) \/ GatherReturn(g) \/ CoordClose(g)
        \/ \E t \in Targets :
              \/ TargetStep(g, t)
              \/ \E c \in Collectors : CollectorStep(g, t, c)

\* A step of Gather call g or of one of its tasks.
CallStep(g) ==
    \/ GatherReceive(g) \/ GatherReturn(g) \/ CoordClose(g)
    \/ \E t \in Targets :
          \/ TargetStep(g, t)
          \/ \E c \in Collectors : CollectorStep(g, t, c)

\* The Go scheduler runs a goroutine that can take a step, and every driver call
\* (OpenConnection, PingDB, a collector's query) returns: while some goroutine can
\* take a step, one does. This is weaker than fairness to each goroutine.
\* Nothing is assumed of the environment.
Fairness == WF_vars(ProgramStep)

\* Termination is looked at for one Gather call at a time, and for counters
\* only: no step of the program branches on the help text of a metric or on
\* which of the two handled types it has.
FairInit ==
    /\ Init
    /\ calls = 1
    /\ \A c \in collectors : descs[c].type = "counter"

FairSpec == FairInit /\ [][Next]_vars /\ Fairness

\* The start of the program, for every environment and command line; the
\* exporter is not looked at.
MainInit ==
    /\ envConfigFile \in Paths
    /\ args \in CommandLines
    /\ showVersion = FALSE
    /\ configFile = ""
    /\ mpc = "start"
    /\ ExporterInit
    /\ calls = 1 /\ targets = {1} /\ collectors = {1}

exportervars ==
    <<calls, targets, collectors, descs, conn, nOpen, last_run_at, gvars, ctx, tpc,
      ores, perr, twg, kvars, sent, panicked>>

MainNext ==
    \/ MainFlags /\ UNCHANGED exportervars
    \/ MainEnv /\ UNCHANGED exportervars
    \/ MainParse /\ UNCHANGED exportervars
    \/ MainStart /\ UNCHANGED exportervars

MainSpec == MainInit /\ [][MainNext]_vars

\* ---- properties ---------------------------------------------------------
\* The number of items of bag B that satisfy P.
Count(B, P(_)) ==
    LET S == {m \in BagToSet(B) : P(m)} IN BagCardinality([m \in S |-> B[m]])

\* Items the Collect of target t in call g sent itself, by the name of the sample.
OwnSent(g, t, name) ==
    Count(sent[g], LAMBDA m : m.call = g /\ m.target = t /\ m.coll = 0 /\ m.name = name)

\* Items the collectors of target t in call g sent.
CollectorSent(g, t) ==
    Count(sent[g], LAMBDA m : m.call = g /\ m.target = t /\ m.coll # 0)

\* Invalid metrics the Collect of target t in call g sent itself, carrying error e.
OwnInvalidSent(g, t, e) ==
    Count(sent[g], LAMBDA m : m.call = g /\ m.target = t /\ m.coll = 0 /\ m.err = e)

CollectorsAt(g, t, positions) == \A c \in Collectors : kpc[g][t][c] \in positions

\* C1: in every Gather call every configured target's Collect sends exactly one
\* `up` sample and exactly one `scrape_duration_seconds` sample, whatever open
\* and ping returned and whatever the collectors did: never more than one of
\* each, one of each once the Collect has returned, and Gather does not return
\* before every Collect has.
C1_UpAndDurationOnce ==
    \A g \in Calls : \A t \in targets :
        /\ OwnSent(g, t, upMetricName) <= 1
        /\ OwnSent(g, t, scrapeDurationName) <= 1
        /\ tpc[g][t] = "done" =>
              /\ OwnSent(g, t, upMetricName) = 1
              /\ OwnSent(g, t, scrapeDurationName) = 1
        /\ gpc[g] = "done" => tpc[g][t] = "done"

\* A Gather call has returned with one target down and the other up.
C1_Witness ==
    \E g \in Calls :
        /\ gpc[g] = "done"
        /\ targets = {1, 2}
        /\ perr[g][1] = "driver"
        /\ perr[g][2] = ""
        /\ CollectorSent(g, 2) > 0

\* C2: within one target's scrape `up` is sent before any collector is started
\* (so before any collector sample), and `scrape_duration_seconds` is sent only
\* when every collector of the target has returned.
C2_UpFirstDurationLast ==
    \A g \in Calls : \A t \in targets :
        /\ ~CollectorsAt(g, t, {"idle"}) => OwnSent(g, t, upMetricName) = 1
        /\ CollectorSent(g, t) > 0 => OwnSent(g, t, upMetricName) = 1
        /\ OwnSent(g, t, scrapeDurationName) > 0 =>
              /\ OwnSent(g, t, upMetricName) = 1
              /\ IF targetUp(g, t)
                 THEN \A c \in collectors : kpc[g][t][c] = "done"
                 ELSE CollectorsAt(g, t, {"idle"})

\* A target has sent its duration after its two collectors each sent a sample.
C2_Witness ==
    \E g \in Calls : \E t \in targets :
        /\ OwnSent(g, t, scrapeDurationName) = 1
        /\ CollectorSent(g, t) >= 2

\* C3: when open or ping fails with an error that is not the context's, the
\* scrape of the target sends exactly one invalid metric, which carries that
\* error, `up` with value 0, `scrape_duration_seconds`, and runs no collector.
C3_TargetDown ==
    \A g \in Calls : \A t \in targets :
        (tpc[g][t] = "done" /\ perr[g][t] = "driver") =>
            /\ OwnInvalidSent(g, t, "driver") = 1
            /\ Count(sent[g], LAMBDA m : m.call = g /\ m.target = t /\ m.err # "") = 1
            /\ OwnSent(g, t, upMetricName) = 1
            /\ Count(sent[g], LAMBDA m : m.call = g /\ m.target = t
                                         /\ m.name = upMetricName /\ m.val = 0) = 1
            /\ OwnSent(g, t, scrapeDurationName) = 1
            /\ CollectorSent(g, t) = 0
            /\ CollectorsAt(g, t, {"idle"})

\* A Gather call has returned in which OpenConnection failed with a driver error.
C3_Witness ==
    \E g \in Calls : \E t \in targets :
        /\ tpc[g][t] = "done" /\ perr[g][t] = "driver" /\ ores[g][t] = "driver"
        /\ gpc[g] = "done"

\* C4: under fair scheduling, with every driver call returning, every Gather
\* call that has started eventually returns, also when its tasks send more items
\* than the channel holds.
C4_GatherReturns ==
    \A g \in Calls : (gpc[g] = "range") ~> (gpc[g] = "done")

\* A Gather call has returned after more items were sent than the channel holds.
C4_Witness ==
    \E g \in Calls :
        /\ gpc[g] = "done"
        /\ BagCardinality(sent[g]) > capMetricChan

\* Every task of call g has finished: its target tasks and their collector tasks.
TasksFinished(g) ==
    \A t \in targets :
        /\ tpc[g][t] = "done"
        /\ CollectorsAt(g, t, {"idle", "done"})

\* C5: the channel of a Gather call is closed exactly once, and only after
\* every target task of the call and every collector task has finished; no task
\* sends on a closed channel.
C5_ClosedOnceAfterJoin ==
    /\ ~panicked
    /\ \A g \in Calls :
          /\ closed[g] <= 1
          /\ closed[g] > 0 => TasksFinished(g)
          /\ gpc[g] = "done" => closed[g] = 1

\* A channel is closed after collectors of two targets have sent on it.
C5_Witness ==
    \E g \in Calls :
        /\ closed[g] = 1
        /\ CollectorSent(g, 1) > 0
        /\ CollectorSent(g, 2) > 0

\* The bag of the items of sequence q.
BagOfSeq(q) ==
    LET S == {q[i] : i \in DOMAIN q}
    IN  [m \in S |-> Cardinality({i \in DOMAIN q : q[i] = m})]

\* The samples of the families of call g named name, as a bag.
FamilySamples(g, name) ==
    IF name \in DOMAIN families[g] THEN families[g][name].metric ELSE EmptyBag

FamilyNames == {upMetricName, scrapeDurationName} \cup {d.name : d \in MetricDescs}

\* The sub-bag of B of the items that satisfy P.
Select(B, P(_)) == [m \in {x \in BagToSet(B) : P(x)} |-> B[m]]

\* C6: nothing sent on the channel of a Gather call is lost or duplicated: at
\* any moment an item sent is in the channel or has been accounted for once, an
\* invalid metric as one entry of the error list, a valid sample once in the
\* family named after its descriptor and in no other; the error list and the
\* families hold nothing else, and when Gather returns the channel is empty.
C6_NothingLost ==
    \A g \in Calls :
        /\ Select(sent[g], LAMBDA m : m.err # "") =
              errs[g] (+) Select(BagOfSeq(metricChan[g]), LAMBDA m : m.err # "")
        /\ \A name \in FamilyNames :
              Select(sent[g], LAMBDA m : m.err = "" /\ m.name = name) =
                 FamilySamples(g, name)
                 (+) Select(BagOfSeq(metricChan[g]), LAMBDA m : m.err = "" /\ m.name = name)
        /\ DOMAIN families[g] \subseteq FamilyNames
        /\ \A name \in DOMAIN families[g] : families[g][name].name = name
        /\ gpc[g] = "done" => metricChan[g] = <<>>

\* A Gather call has returned an error together with a family of a collector's
\* samples and the family of two `up` samples.
C6_Witness ==
    \E g \in Calls :
        /\ gpc[g] = "done"
        /\ BagCardinality(errs[g]) >= 1
        /\ BagCardinality(FamilySamples(g, upMetricName)) = 2
        /\ \E name \in DOMAIN families[g] :
              /\ name \notin {upMetricName, scrapeDurationName}
              /\ BagCardinality(families[g][name].metric) >= 1

\* C7: in every family all samples have the family's type and help text.
C7_FamilyConsistent ==
    \A g \in Calls : \A name \in DOMAIN families[g] :
        \A m \in BagToSet(families[g][name].metric) :
            /\ m.type = families[g][name].type
            /\ m.help = families[g][name].help

\* C8: the connection of a target is opened successfully at most once: only the
\* first successful OpenConnection is stored in the handle.
C8_OpenedAtMostOnce ==
    \A t \in Targets : nOpen[t] <= 1

\* C9: every item in the channel of a Gather call, in its families and in its
\* error list was produced by a task of that call, and never sent on another
\* call's channel.
C9_NoLeakage ==
    \A g \in Calls :
        /\ \A i \in DOMAIN metricChan[g] : metricChan[g][i].call = g
        /\ \A m \in BagToSet(sent[g]) : m.call = g
        /\ \A m \in BagToSet(errs[g]) : m.call = g
        /\ \A name \in DOMAIN families[g] :
              \A m \in BagToSet(families[g][name].metric) : m.call = g

\* Two Gather calls run at once, each with items in its channel, one of them
\* having collated samples already.
C9_Witness ==
    /\ gpc[1] = "range" /\ gpc[2] = "range"
    /\ Len(metricChan[1]) > 0 /\ Len(metricChan[2]) > 0
    /\ DOMAIN families[1] # {}
    /\ BagCardinality(errs[2]) > 0

\* The scrape of target t in call g found the handle unopened, called
\* OpenConnection, and its ping returned the context's error: the deadline
\* expired during the open or, after it, during the ping.
ExpiredInProbe(g, t) ==
    /\ ores[g][t] # ""
    /\ perr[g][t] = "ctx"

\* C10 as claimed: when the deadline expires during open or during ping of a
\* target whose handle was unopened at the start of the scrape, the handle is
\* still unopened when the scrape ends.
C10_UnopenedAfterDeadline ==
    \A g \in Calls : \A t \in targets :
        (tpc[g][t] = "done" /\ ExpiredInProbe(g, t)) => conn[t] = NilConn

\* C10 as amended: a scrape whose OpenConnection returned the context's error
\* stores no handle, so the handle is unopened unless another scrape of the
\* target opened it; a scrape whose OpenConnection succeeded leaves the handle
\* opened, also when the deadline expires during its ping.
C10_DeadlineDuringOpen ==
    \A g \in Calls : \A t \in targets :
        /\ ores[g][t] = "ctx" =>
              /\ conn[t] # g
              /\ conn[t] = NilConn \/ \E h \in Calls \ {g} : ores[h][t] = "ok"
        /\ ores[g][t] = "ok" => conn[t] # NilConn

\* A scrape has ended whose OpenConnection returned the context's error, the
\* handle is unopened, and the next scrape is about to call OpenConnection again.
C10_Witness ==
    /\ tpc[1][1] = "done"
    /\ ores[1][1] = "ctx"
    /\ gpc[1] = "done"
    /\ conn[1] = NilConn
    /\ tpc[2][1] = "open"

\* Items the Collect of target t in call g sent itself.
OwnItems(g, t) ==
    Count(sent[g], LAMBDA m : m.call = g /\ m.target = t /\ m.coll = 0)

\* C11 as claimed: a target's Collect sends nothing once the context of its
\* Gather call is expired. A Collect whose ping returned the context's error
\* found the context expired before its first send, so it has sent nothing.
C11_NoSendAfterExpiry ==
    \A g \in Calls : \A t \in targets :
        perr[g][t] = "ctx" => OwnItems(g, t) = 0

\* C11 as amended: the deadline does not stop a target's Collect from sending.
\* When ping returned the context's error the context is expired for good, and
\* the Collect still sends, after the expiry, the three items it owes: one
\* invalid metric, which carries the context's error, `up` and
\* `scrape_duration_seconds`; it has sent them all when it returns.
C11_SendsAfterExpiry ==
    \A g \in Calls : \A t \in targets :
        perr[g][t] = "ctx" =>
            /\ Expired(g)
            /\ tpc[g][t] = "spawn" =>
                  OwnInvalidSent(g, t, "ctx") = 1 /\ OwnSent(g, t, upMetricName) = 1
            /\ tpc[g][t] = "done" =>
                  /\ OwnItems(g, t) = 3
                  /\ OwnInvalidSent(g, t, "ctx") = 1
                  /\ OwnSent(g, t, upMetricName) = 1
                  /\ OwnSent(g, t, scrapeDurationName) = 1

\* A Gather call has returned the context's error of a target whose PingDB was
\* under way when the deadline passed, with the target's two samples.
C11_Witness ==
    \E g \in Calls : \E t \in targets :
        /\ gpc[g] = "done"
        /\ ores[g][t] = "ok"
        /\ perr[g][t] = "ctx"
        /\ Count(errs[g], LAMBDA m : m.target = t /\ m.err = "ctx") = 1
        /\ BagCardinality(FamilySamples(g, scrapeDurationName)) >= 1

\* The `up` samples of value v that the Collect of target t in call g sent.
UpSent(g, t, v) ==
    Count(sent[g], LAMBDA m : m.call = g /\ m.target = t /\ m.coll = 0
                                /\ m.name = upMetricName /\ m.val = v)

\* The Collect of target t in call g is past its `up` sample.
PastUp(g, t) == tpc[g][t] \in {"spawn", "wait", "done"}

\* C12: a target that was down recovers in a later scrape. A scrape whose open
\* or ping failed reports `up` = 0; if its open failed it leaves no handle, so
\* a later scrape calls OpenConnection again; and a later scrape whose open (if
\* needed) and ping succeed before the deadline reports `up` = 1 and starts
\* every collector of the target.
C12_Recovers ==
    \A g, h \in Calls : \A t \in targets :
        (g < h /\ PastUp(g, t) /\ perr[g][t] # "") =>
            /\ UpSent(g, t, 0) = 1 /\ UpSent(g, t, 1) = 0
            /\ (ores[g][t] \in {"driver", "ctx"}
                   /\ tpc[h][t] \notin {"idle", "ping", "open"}) => ores[h][t] # ""
            /\ (PastUp(h, t) /\ ores[h][t] \in {"", "ok"} /\ perr[h][t] = "") =>
                  /\ UpSent(h, t, 1) = 1 /\ UpSent(h, t, 0) = 0
                  /\ tpc[h][t] \in {"wait", "done"} =>
                        \A c \in collectors : kpc[h][t][c] # "idle"

\* A scrape in which OpenConnection failed has ended with `up` = 0, and the next
\* scrape of the target opened the connection, reported `up` = 1 and returned
\* a sample of its collector.
C12_Witness ==
    /\ gpc[1] = "done" /\ gpc[2] = "done"
    /\ ores[1][1] = "driver" /\ UpSent(1, 1, 0) = 1
    /\ ores[2][1] = "ok" /\ perr[2][1] = ""
    /\ BagCardinality(FamilySamples(2, upMetricName)) = 1
    /\ \E name \in DOMAIN families[2] :
          name \notin {upMetricName, scrapeDurationName}

\* The state of Gather call g and of its tasks: the locals of Gather and of the
\* Collect and ping calls it makes.
PerCall(g) ==
    <<gpc[g], ctx[g], metricChan[g], closed[g], wg[g], coord[g], families[g], errs[g],
      tpc[g], perr[g], twg[g], kpc[g], kconn[g], ksent[g]>>

Sum(S, f(_)) == BagCardinality([x \in {y \in S : f(y) > 0} |-> f(x)])

\* The steps a collector task has left at most: its invocation, its sends, each
\* with the receive it makes Gather do, and its return.
CollectorWork(g, t, c) ==
    CASE kpc[g][t][c] = "done" -> 0
      [] kpc[g][t][c] = "run" -> 2 * (MaxSamples - ksent[g][t][c]) + 1
      [] kpc[g][t][c] = "spawned" -> 2 * MaxSamples + 2
      [] OTHER -> IF c \in collectors /\ tpc[g][t] \notin {"idle", "wait", "done"}
                  THEN 2 * MaxSamples + 2 ELSE 0

\* The steps a target task has left at most from where it is, a send counting
\* for two, and those of its collectors.
TargetWork(g, t) ==
    (CASE tpc[g][t] = "ping" -> 10
       [] tpc[g][t] = "open" -> 9
       [] tpc[g][t] = "pingdb" -> 8
       [] tpc[g][t] = "senderr" -> 7
       [] tpc[g][t] = "up" -> 5
       [] tpc[g][t] = "spawn" -> 3
       [] tpc[g][t] = "wait" -> 2
       [] OTHER -> 0)
    + Sum(collectors, LAMBDA c : CollectorWork(g, t, c))

\* The steps Gather call g and its tasks have left at most before it returns.
Work(g) ==
    (IF gpc[g] = "range" THEN 1 ELSE 0) + (IF coord[g] = "wait" THEN 1 ELSE 0)
    + Len(metricChan[g]) + Sum(targets, LAMBDA t : TargetWork(g, t))

\* The work of a Gather call when it starts.
MaxWork ==
    2 + Cardinality(targets) * (10 + Cardinality(collectors) * (2 * MaxSamples + 2))

\* C14: once the deadline of a Gather call has expired the call returns within a
\* bounded delay, every driver operation returning promptly: the steps the
\* call and its tasks have left are bounded, every step of theirs takes one or
\* more off, no other step adds any, and until the call returns one of them
\* can always be taken, so that none of them waits for anything but a step of
\* the same call.
C14_BoundedAfterDeadline ==
    /\ [](\A g \in Calls :
            (Expired(g) /\ gpc[g] = "range") =>
                /\ Work(g) <= MaxWork
                /\ ENABLED CallStep(g))
    /\ [][\A g \in Calls :
            (Expired(g) /\ gpc[g] = "range") =>
                /\ Work(g)' <= Work(g)
                /\ PerCall(g)' # PerCall(g) => Work(g)' < Work(g)
                /\ gpc'[g] = "done" <=> Work(g)' = 0]_vars

\* The deadline of a Gather call has expired with OpenConnection under way in
\* one target and a collector at work in the other, the channel being full.
C14_Witness ==
    \E g \in Calls :
        /\ ctx[g] = "deadline" /\ gpc[g] = "range"
        /\ tpc[g][1] = "open"
        /\ kpc[g][2][1] = "run"
        /\ Len(metricChan[g]) = capMetricChan

\* ping of target t in call g is under way.
InPing(g, t) == tpc[g][t] \in {"ping", "open", "pingdb"}

KpcOrder == <<"idle", "spawned", "run", "done">>
KpcIndex(p) == CHOOSE i \in DOMAIN KpcOrder : KpcOrder[i] = p

\* C16: in a scrape of a target the collectors are started if and only if
\* `up` = 1 was sent; then every collector of the target, and no other, gets a
\* task of its own in which it is invoked once (a task goes through its
\* positions in order, one at a time, and never back), the target's wait group
\* counts the tasks that have not returned, and what a collector sends goes
\* on the channel of the Gather call of its target.
C16_CollectorsOnceIfUp ==
    /\ [](\A g \in Calls : \A t \in targets :
            /\ ~CollectorsAt(g, t, {"idle"}) => UpSent(g, t, 1) = 1
            /\ UpSent(g, t, 0) > 0 => CollectorsAt(g, t, {"idle"})
            /\ (UpSent(g, t, 1) = 1 /\ tpc[g][t] \in {"wait", "done"}) =>
                  \A c \in collectors : kpc[g][t][c] # "idle"
            /\ (UpSent(g, t, 1) = 1 /\ tpc[g][t] = "done") =>
                  \A c \in collectors : kpc[g][t][c] = "done"
            /\ \A c \in Collectors \ collectors : kpc[g][t][c] = "idle"
            /\ twg[g][t] =
                  Cardinality({c \in Collectors : kpc[g][t][c] \in {"spawned", "run"}})
            /\ \A h \in Calls : \A m \in BagToSet(sent[h]) :
                  (m.call = g /\ m.coll # 0) => h = g)
    /\ [][\A g \in Calls : \A t \in targets : \A c \in Collectors :
            kpc'[g][t][c] # kpc[g][t][c] =>
                KpcIndex(kpc'[g][t][c]) = KpcIndex(kpc[g][t][c]) + 1]_vars

\* A target has reported `up` = 1 and its scrape has ended: both of its
\* collectors have been invoked, have sent on the channel and have returned.
C16_Witness ==
    \E g \in Calls : \E t \in targets :
        /\ tpc[g][t] = "done" /\ UpSent(g, t, 1) = 1
        /\ collectors = {1, 2}
        /\ \A c \in collectors :
              /\ kpc[g][t][c] = "done"
              /\ Count(sent[g], LAMBDA m : m.target = t /\ m.coll = c) = 1

\* C17: no collector is invoked with a nil handle: when ping has returned
\* without error the handle of the target is not nil, a handle that is not nil
\* never becomes nil again, and the handle a collector task read on its
\* invocation is not nil, however the scrapes of the target interleave.
C17_CollectorHasHandle ==
    /\ [](\A g \in Calls : \A t \in targets :
            /\ (~InPing(g, t) /\ tpc[g][t] # "idle" /\ perr[g][t] = "") =>
                  conn[t] # NilConn
            /\ \A c \in collectors :
                  kpc[g][t][c] \in {"run", "done"} => kconn[g][t][c] # NilConn)
    /\ [][\A t \in Targets : conn[t] # NilConn => conn'[t] # NilConn]_vars

\* Two scrapes of a target have both opened the connection, and the collector
\* of the first is at work with the handle that the second has stored.
C17_Witness ==
    /\ nOpen[1] = 2
    /\ kpc[1][1][1] = "run" /\ kconn[1][1][1] = 2
    /\ tpc[2][1] \in {"pingdb", "up"}

\* C18: when Gather has returned, every target task and every collector task
\* it started has finished, both wait groups are at zero, the closing goroutine
\* has closed the channel, once, and has ended, and the channel is empty: the
\* deferred drain has nothing to receive and no sender is blocked.
C18_NothingLeftRunning ==
    \A g \in Calls :
        gpc[g] = "done" =>
            /\ \A t \in targets :
                  /\ tpc[g][t] = "done"
                  /\ twg[g][t] = 0
                  /\ \A c \in Collectors : kpc[g][t][c] \in {"idle", "done"}
            /\ wg[g] = 0
            /\ coord[g] = "done"
            /\ closed[g] = 1
            /\ metricChan[g] = <<>>
            /\ BagCardinality(sent[g]) =
                  BagCardinality(errs[g])
                  + Sum(DOMAIN families[g],
                        LAMBDA name : BagCardinality(families[g][name].metric))

\* A Gather call has returned after its tasks, those of the collectors of two
\* targets among them, sent more items than the channel holds.
C18_Witness ==
    \E g \in Calls :
        /\ gpc[g] = "done"
        /\ CollectorSent(g, 1) > 0 /\ CollectorSent(g, 2) > 0
        /\ BagCardinality(sent[g]) > 2 * capMetricChan

\* Item a is sent before item b in every schedule: the items of one task in the
\* order of the task, a target's invalid metric and `up` before the items of
\* its collectors, and these before its `scrape_duration_seconds`.
SentBefore(a, b) ==
    /\ a.call = b.call /\ a.target = b.target
    /\ \/ a.coll = b.coll /\ a.seq < b.seq
       \/ a.coll = 0 /\ a.seq <= 1 /\ b.coll # 0
       \/ a.coll # 0 /\ b.coll = 0 /\ b.seq = 2

\* The orders in which the items sent on the channel of call g can reach the
\* range loop under some schedule of the tasks.
Orders(g) ==
    LET S == BagToSet(sent[g])
        n == Cardinality(S)
    IN  {q \in [1..n -> S] :
            \A i, j \in 1..n : i < j => (q[i] # q[j] /\ ~SentBefore(q[j], q[i]))}

\* What the range loop has gathered after the first k items of q.
RECURSIVE Gathered(_, _)
Gathered(q, k) ==
    IF k = 0 THEN [families |-> <<>>, errs |-> EmptyBag]
    ELSE LET before == Gathered(q, k - 1)
         IN  RangeBody(before.families, before.errs, q[k])

\* C19: the result of Gather does not depend on the schedule: the families,
\* with their names, types, help texts and bags of samples, and the bag of
\* errors that a Gather call returns are those it would have gathered had the
\* same items reached it in any other order that a schedule can produce.
C19_ScheduleIndependent ==
    \A g \in Calls :
        gpc[g] = "done" =>
            \A q \in Orders(g) :
                Gathered(q, Len(q)) = [families |-> families[g], errs |-> errs[g]]

\* The path the precedence rule selects: the flag if it is given, else CONFIG
\* if it is not empty, else the default.
SelectedPath ==
    IF args.config # NotGiven THEN args.config
    ELSE IF envConfigFile # "" THEN envConfigFile
    ELSE DefaultConfigFile

\* C20: the configuration file the exporter is started from is the one the
\* -config.file flag names if the flag is given, else the one CONFIG names if
\* CONFIG is not empty, else sql_exporter.yml; the environment is looked at
\* before the command line is parsed, and main does not start the exporter
\* when -version is given.
C20_ConfigPrecedence ==
    /\ mpc \in {"parsed", "serving", "exit"} => configFile = SelectedPath
    /\ mpc = "parse" =>
          configFile = (IF envConfigFile # "" THEN envConfigFile ELSE DefaultConfigFile)
    /\ mpc = "serving" => ~args.version

\* The exporter has been started with CONFIG and the flag naming different
\* files: from the file the flag names.
C20_Witness ==
    /\ mpc = "serving"
    /\ envConfigFile = "env.yml"
    /\ args.config = "flag.yml"
    /\ configFile = "flag.yml"
====
